---------------------------- MODULE Spec2Model ----------------------------
(***************************************************************************)
(* Model of the vcstool-repos-shortcut content script (src/main.js):       *)
(* the repository-block parser (Utils), the overlay (UI) and the page      *)
(* watcher (App), together with the host page they read.                   *)
(*                                                                         *)
(* Text is modelled by TLA+ strings; a character is a string of length 1.  *)
(***************************************************************************)
EXTENDS Integers, Sequences, FiniteSets, TLC

(***************************************************************************)
(* JavaScript values and string methods.                                   *)
(***************************************************************************)

\* The JavaScript values undefined and null.  Every string the parser stores
\* is trimmed, so no stored string equals either of them.
undefined == " undefined "
null == " null "

\* JavaScript truthiness of a string, undefined or null.
Truthy(v) == v \notin {undefined, null, ""}

CharAt(s, i) == SubSeq(s, i, i)

\* The white space String.prototype.trim and \s remove (of it, rendered
\* lines hold spaces and tabs).
WhiteSpace == {" ", "\t"}

Digits == {"0", "1", "2", "3", "4", "5", "6", "7", "8", "9"}
LowerCase == {"a", "b", "c", "d", "e", "f", "g", "h", "i", "j", "k", "l", "m",
              "n", "o", "p", "q", "r", "s", "t", "u", "v", "w", "x", "y", "z"}
UpperCase == {"A", "B", "C", "D", "E", "F", "G", "H", "I", "J", "K", "L", "M",
              "N", "O", "P", "Q", "R", "S", "T", "U", "V", "W", "X", "Y", "Z"}
\* \w
WordChars == LowerCase \cup UpperCase \cup Digits \cup {"_"}

AllIn(s, chars) == \A i \in 1..Len(s) : CharAt(s, i) \in chars

RECURSIVE trimStart(_)
trimStart(s) ==
  IF Len(s) > 0 /\ CharAt(s, 1) \in WhiteSpace
  THEN trimStart(SubSeq(s, 2, Len(s)))
  ELSE s

RECURSIVE trimEnd(_)
trimEnd(s) ==
  IF Len(s) > 0 /\ CharAt(s, Len(s)) \in WhiteSpace
  THEN trimEnd(SubSeq(s, 1, Len(s) - 1))
  ELSE s

trim(s) == trimEnd(trimStart(s))

startsWith(s, prefix) ==
  Len(s) >= Len(prefix) /\ SubSeq(s, 1, Len(prefix)) = prefix

endsWith(s, suffix) ==
  Len(s) >= Len(suffix) /\ SubSeq(s, Len(s) - Len(suffix) + 1, Len(s)) = suffix

includes(s, part) ==
  \E i \in 1..(Len(s) - Len(part) + 1) : SubSeq(s, i, i + Len(part) - 1) = part

\* The index of the first character of s that is in seps, Len(s) + 1 if none.
FirstIn(s, seps) ==
  IF \E i \in 1..Len(s) : CharAt(s, i) \in seps
  THEN CHOOSE i \in 1..Len(s) :
         /\ CharAt(s, i) \in seps
         /\ \A j \in 1..(i - 1) : CharAt(s, j) \notin seps
  ELSE Len(s) + 1

\* s.split(sep) for a one-character separator, or for a character class
\* (split(/[?#]/)): the sequence of the parts, never empty.
RECURSIVE split(_, _)
split(s, seps) ==
  LET i == FirstIn(s, seps)
  IN  IF i > Len(s)
      THEN <<s>>
      ELSE <<SubSeq(s, 1, i - 1)>> \o split(SubSeq(s, i + 1, Len(s)), seps)

RECURSIVE join(_, _)
join(parts, sep) ==
  IF Len(parts) = 0 THEN ""
  ELSE IF Len(parts) = 1 THEN parts[1]
  ELSE parts[1] \o sep \o join(Tail(parts), sep)


(***************************************************************************)
(* REGEX and Utils (src/main.js).                                          *)
(***************************************************************************)

\* [\w.-]
SegmentChars == WordChars \cup {".", "-"}

\* C9, mutant of SSH_URL: the repository group also takes '/', so that a
\* path of more than two segments matches.
SSH_URL_deepPath(url) ==
  LET n == Len(url)
  IN  { <<SubSeq(url, 5, p[1] - 1), SubSeq(url, p[1] + 1, p[2] - 1),
          SubSeq(url, p[2] + 1, n - 4)>> :
        p \in { q \in (6..n) \X (8..n) :
                  /\ startsWith(url, "git@")
                  /\ endsWith(url, ".git")
                  /\ CharAt(url, q[1]) = ":"
                  /\ CharAt(url, q[2]) = "/"
                  /\ q[1] + 1 < q[2]
                  /\ q[2] + 1 < n - 3
                  /\ AllIn(SubSeq(url, 5, q[1] - 1), SegmentChars)
                  /\ AllIn(SubSeq(url, q[1] + 1, q[2] - 1), SegmentChars)
                  /\ AllIn(SubSeq(url, q[2] + 1, n - 4),
                           SegmentChars \cup {"/"}) } }

\* REGEX.SSH_URL, /^git@([\w.-]+):([\w.-]+)\/([\w.-]+)\.git$/: the set of
\* the matches of url, each the three captured groups; empty when url does
\* not match.
SSH_URL(url) ==
  LET n == Len(url)
  IN  { <<SubSeq(url, 5, p[1] - 1), SubSeq(url, p[1] + 1, p[2] - 1),
          SubSeq(url, p[2] + 1, n - 4)>> :
        p \in { q \in (6..n) \X (8..n) :
                  /\ startsWith(url, "git@")
                  /\ endsWith(url, ".git")
                  /\ CharAt(url, q[1]) = ":"
                  /\ CharAt(url, q[2]) = "/"
                  /\ q[1] + 1 < q[2]
                  /\ q[2] + 1 < n - 3
                  /\ AllIn(SubSeq(url, 5, q[1] - 1), SegmentChars)
                  /\ AllIn(SubSeq(url, q[1] + 1, q[2] - 1), SegmentChars)
                  /\ AllIn(SubSeq(url, q[2] + 1, n - 4), SegmentChars) } }

\* [\w.\-\/_]
KeyChars == WordChars \cup {".", "-", "/", "_"}

\* REGEX.REPOS_KEY, /^[\w.\-\/_]+:\s*(#.*)?$/ tested on a line's trimmed text.
REPOS_KEY(text) ==
  \E i \in 2..Len(text) :
    /\ CharAt(text, i) = ":"
    /\ AllIn(SubSeq(text, 1, i - 1), KeyChars)
    /\ LET rest == trimStart(SubSeq(text, i + 1, Len(text)))
       IN  rest = "" \/ CharAt(rest, 1) = "#"

HexChars == Digits \cup {"a", "b", "c", "d", "e", "f"}

HashLength == 40

\* C3, mutant of COMMIT_HASH: the pattern with the i flag, /^[0-9a-f]{40}$/i.
COMMIT_HASH_anyCase(version) ==
  /\ Len(version) = HashLength
  /\ AllIn(version, HexChars \cup {"A", "B", "C", "D", "E", "F"})

\* C39, mutant of COMMIT_HASH: the pattern without the count, /^[0-9a-f]+$/.
COMMIT_HASH_anyLength(version) ==
  Len(version) > 0 /\ AllIn(version, HexChars)

\* REGEX.COMMIT_HASH, /^[0-9a-f]{40}$/.
COMMIT_HASH(version) ==
  Len(version) = HashLength /\ AllIn(version, HexChars)

\* C2, mutant of convertSshToHttp: the ':' of the SSH form is kept between
\* domain and owner.
convertSshToHttp_keepsColon(url) ==
  IF SSH_URL(url) = {}
  THEN null
  ELSE LET match == CHOOSE m \in SSH_URL(url) : TRUE
       IN  "https://" \o match[1] \o ":" \o match[2] \o "/" \o match[3] \o ".git"

\* Utils.convertSshToHttp
convertSshToHttp(url) ==
  IF SSH_URL(url) = {}
  THEN null
  ELSE LET match == CHOOSE m \in SSH_URL(url) : TRUE
       IN  "https://" \o match[1] \o "/" \o match[2] \o "/" \o match[3] \o ".git"

\* url.replace(/\.git$/, "")
replaceGitSuffix(url) ==
  IF endsWith(url, ".git") THEN SubSeq(url, 1, Len(url) - 4) ELSE url

\* Utils.isReposFile
isReposFile(url) ==
  LET segments == split(split(url, {"?", "#"})[1], {"/"})
  IN  \E i \in 1..Len(segments) : includes(segments[i], ".repos")

\* The property names every plain object ({}) inherits from Object.prototype:
\* repos[name] is truthy for each of them before any record is stored.
ObjectPrototypeKeys ==
  {"constructor", "hasOwnProperty", "isPrototypeOf", "propertyIsEnumerable",
   "toLocaleString", "toString", "valueOf", "__proto__", "__defineGetter__",
   "__defineSetter__", "__lookupGetter__", "__lookupSetter__"}

\* if (repos[name]) return;  (repos is a plain object, its records truthy)
HasEntry(repos, name) ==
  name \in DOMAIN repos \/ name \in ObjectPrototypeKeys

\* C7, mutant of readLine: a commented-out field line is read as the field.
readLine_uncomments(repo, line) ==
  LET raw == trim(line.innerText)
      text == IF startsWith(raw, "#") THEN trim(SubSeq(raw, 2, Len(raw)))
              ELSE raw
      parts == split(text, {":"})
      key == trim(parts[1])
      val == trim(split(join(Tail(parts), ":"), {"#"})[1])
      url == IF startsWith(val, "git@") THEN convertSshToHttp(val) ELSE val
  IN  IF text = "" THEN repo
      ELSE IF Len(parts) = 1 THEN repo
      ELSE IF key = "type" THEN [repo EXCEPT !.type = val]
      ELSE IF key = "url" THEN [repo EXCEPT !.url = url]
      ELSE IF key = "version" THEN [repo EXCEPT !.version = val]
      ELSE repo

\* The callback of lines.slice(1).forEach in processBlock: one body line
\* read into the record.
readLine(repo, line) ==
  LET text == trim(line.innerText)
      parts == split(text, {":"})
      key == trim(parts[1])
      val == trim(split(join(Tail(parts), ":"), {"#"})[1])
      url == IF startsWith(val, "git@") THEN convertSshToHttp(val) ELSE val
  IN  IF text = "" \/ startsWith(text, "#") THEN repo
      ELSE IF Len(parts) = 1 THEN repo
      ELSE IF key = "type" THEN [repo EXCEPT !.type = val]
      ELSE IF key = "url" THEN [repo EXCEPT !.url = url]
      ELSE IF key = "version" THEN [repo EXCEPT !.version = val]
      ELSE repo

RECURSIVE readLines(_, _)
readLines(repo, lines) ==
  IF Len(lines) = 0 THEN repo
  ELSE readLines(readLine(repo, Head(lines)), Tail(lines))

\* The url of an accepted record: '.git' removed, the version's suffix added.
linkUrl(repo) ==
  IF Truthy(repo.version)
  THEN replaceGitSuffix(repo.url)
         \o (IF COMMIT_HASH(repo.version) THEN "/blob/" ELSE "/tree/")
         \o repo.version
  ELSE replaceGitSuffix(repo.url)

\* C5 and C6, mutant of accepts: any type will do.
accepts_anyType(repo) == Truthy(repo.url) /\ Truthy(repo.type)

\* Whether processBlock stores the record it has read.
accepts(repo) ==
  Truthy(repo.url) /\ repo.type # undefined /\ includes(repo.type, "git")

\* processBlock of Utils.parseRepositories: repos after the block lines.
processBlock(repos, lines) ==
  IF Len(lines) = 0 THEN repos
  ELSE LET name == trim(split(lines[1].innerText, {":"})[1])
           repo == readLines([name |-> name, key |-> lines[1].id,
                              type |-> undefined, url |-> undefined,
                              version |-> undefined], Tail(lines))
       IN  IF HasEntry(repos, name) THEN repos
           ELSE IF accepts(repo)
           THEN (name :> [repo EXCEPT !.url = linkUrl(repo)]) @@ repos
           ELSE repos

\* Whether the scan loop of parseRepositories starts a new block at line.
startsBlock(line) ==
  LET text == trim(line.innerText)
  IN  REPOS_KEY(text) /\ (line.id # "LC1" \/ text # "repositories:")

\* The scan loop of Utils.parseRepositories from line i on, and the final
\* processBlock.
RECURSIVE scanLines(_, _, _, _)
scanLines(codeLines, i, repos, currentBlock) ==
  IF i > Len(codeLines) THEN processBlock(repos, currentBlock)
  ELSE IF startsBlock(codeLines[i])
  THEN scanLines(codeLines, i + 1, processBlock(repos, currentBlock),
                 <<codeLines[i]>>)
  ELSE IF Len(currentBlock) > 0
  THEN scanLines(codeLines, i + 1, repos, Append(currentBlock, codeLines[i]))
  ELSE scanLines(codeLines, i + 1, repos, currentBlock)

\* Utils.parseRepositories: the mapping name -> record.
parseRepositories(codeLines) == scanLines(codeLines, 1, <<>>, <<>>)


(***************************************************************************)
(* State.                                                                  *)
(***************************************************************************)

VARIABLES
  page,      \* the host page: location, title, the rendered file, the overlay
  app,       \* the fields of the App object
  timeouts,  \* the pending setTimeout callbacks of the content script
  cycle,     \* the number of URL-processing cycles started so far
  nav,       \* the background script: the browser's tabs and its messages
  call       \* a call of a Utils function: its argument, and its result once returned

vars == <<page, app, timeouts, cycle, nav, call>>

(***************************************************************************)
(* Inputs of the parser: manifest text, line by line.  Each line of the    *)
(* tables below is given with what it says: k the field, v its value.      *)
(***************************************************************************)

Hash40 == "d41d8cd98f00b204e9800998ecf8427e00000000"
Hash40Upper == "D41D8CD98F00B204E9800998ECF8427E00000000"
Hash39 == "d41d8cd98f00b204e9800998ecf8427e0000000"

\* Body lines of a block, without their indentation.  A url line in SSH
\* form says the HTTPS url it converts to; a malformed one says null.
BodyLines ==
  { [text |-> "type: git", k |-> "type", v |-> "git"],
    [text |-> "type: hg", k |-> "type", v |-> "hg"],
    [text |-> "url: https://github.com/org/bar.git", k |-> "url",
       v |-> "https://github.com/org/bar.git"],
    [text |-> "url: git@github.com:org/foo.git", k |-> "url",
       v |-> "https://github.com/org/foo.git"],
    [text |-> "url: git@github.com:org/a/b.git", k |-> "url", v |-> null],
    [text |-> "version: main", k |-> "version", v |-> "main"],
    [text |-> "version: " \o Hash40 \o "  # pinned", k |-> "version",
       v |-> Hash40],
    [text |-> "version: " \o Hash40Upper, k |-> "version", v |-> Hash40Upper],
    [text |-> "version: " \o Hash39, k |-> "version", v |-> Hash39],
    [text |-> "", k |-> "blank", v |-> ""],
    [text |-> "# url: https://github.com/org/old.git", k |-> "comment",
       v |-> ""],
    [text |-> "depth: 1", k |-> "extra", v |-> "1"] }

\* The body lines of the manifests of two blocks.
FewBodyLines ==
  { l \in BodyLines :
      l.text \in { "type: git", "url: https://github.com/org/bar.git",
                   "url: git@github.com:org/foo.git", "version: main",
                   "# url: https://github.com/org/old.git" } }

\* Key lines: the line that opens a block, and the name it gives.
KeyLines ==
  { [text |-> "pkg/foo:", name |-> "pkg/foo"],
    [text |-> "pkg/bar:  # second", name |-> "pkg/bar"],
    [text |-> "constructor:", name |-> "constructor"] }

\* How a manifest is rendered: first is the number of its first rendered
\* line (the host page renders a window of the file), header whether the
\* outer 'repositories:' line is among the rendered lines, indent the
\* indentation of the key lines (body lines are indented two more).
Renderings ==
  { [first |-> 1, header |-> TRUE, indent |-> "  "],
    [first |-> 1, header |-> FALSE, indent |-> ""],
    [first |-> 2, header |-> FALSE, indent |-> "  "],
    [first |-> 2, header |-> TRUE, indent |-> ""] }

MaxItems == 3
MaxFewItems == 2

\* The sequences over S of length at most n.
SeqUpTo(S, n) == UNION { [1..m -> S] : m \in 0..n }

\* The described manifests: blocks, each a key line and its body lines.
OneBlock ==
  { [rendering |-> r, blocks |-> <<[key |-> kl, body |-> b]>>] :
      r \in Renderings, kl \in KeyLines, b \in SeqUpTo(BodyLines, MaxItems) }

TwoBlocks ==
  { [rendering |-> [first |-> 1, header |-> TRUE, indent |-> "  "],
     blocks |-> <<[key |-> k1, body |-> b1], [key |-> k2, body |-> b2]>>] :
      k1 \in KeyLines, k2 \in KeyLines,
      b1 \in SeqUpTo(FewBodyLines, MaxFewItems),
      b2 \in SeqUpTo(FewBodyLines, MaxFewItems) }

Manifests == OneBlock \cup TwoBlocks

\* A line of the table as rendered.
indented(indent, text) == IF text = "" THEN "" ELSE indent \o text

\* The texts of a described manifest, in order.
RECURSIVE blockTexts(_, _)
blockTexts(blocks, indent) ==
  IF Len(blocks) = 0 THEN <<>>
  ELSE LET b == Head(blocks)
       IN  <<indented(indent, b.key.text)>>
             \o [i \in 1..Len(b.body) |->
                   indented(indent \o "  ", b.body[i].text)]
             \o blockTexts(Tail(blocks), indent)

sourceTexts(src) ==
  (IF src.rendering.header THEN <<"repositories:">> ELSE <<>>)
    \o blockTexts(src.blocks, src.rendering.indent)

\* The id of the rendered line of file line n.
LineId(n) == "LC" \o ToString(n)

\* The line elements of a described manifest: (id, innerText) in order.
sourceLines(src) ==
  LET texts == sourceTexts(src)
  IN  [i \in 1..Len(texts) |->
         [id |-> LineId(src.rendering.first + i - 1), innerText |-> texts[i]]]

(***************************************************************************)
(* The host page.                                                          *)
(***************************************************************************)

\* The locations the tab visits.
Urls ==
  { "https://github.com/o/r/blob/main/a.repos",
    "https://github.com/o/r/blob/main/b.repos?plain=1",
    "https://github.com/o/r/blob/main/config.yml" }

Titles == { "r/a.repos at main", "r/config.yml at main" }

\* A manifest as the host page renders it whole, and scrolled so that its
\* first lines are not rendered.
ManifestSource ==
  [rendering |-> [first |-> 1, header |-> TRUE, indent |-> "  "],
   blocks |->
     << [key |-> [text |-> "pkg/foo:", name |-> "pkg/foo"],
         body |-> << [text |-> "type: git", k |-> "type", v |-> "git"],
                     [text |-> "url: git@github.com:org/foo.git",
                        k |-> "url", v |-> "https://github.com/org/foo.git"],
                     [text |-> "version: main", k |-> "version",
                        v |-> "main"] >>],
        [key |-> [text |-> "pkg/old:", name |-> "pkg/old"],
         body |-> << [text |-> "type: hg", k |-> "type", v |-> "hg"],
                     [text |-> "url: https://github.com/org/old.git",
                        k |-> "url", v |-> "https://github.com/org/old.git"] >>],
        [key |-> [text |-> "pkg/bar:  # second", name |-> "pkg/bar"],
         body |-> << [text |-> "type: git", k |-> "type", v |-> "git"],
                     [text |-> "url: https://github.com/org/bar.git",
                        k |-> "url", v |-> "https://github.com/org/bar.git"] >>] >>]

ManifestLines == sourceLines(ManifestSource)

ScrolledLines == SubSeq(ManifestLines, 6, Len(ManifestLines))

\* Another YAML file of the repository, not a manifest.
ConfigLines ==
  << [id |-> "LC1", innerText |-> "mirror:"],
     [id |-> "LC2", innerText |-> "  type: git"],
     [id |-> "LC3", innerText |-> "  url: https://github.com/org/mirror.git"] >>

\* What the lines container can hold.
PageLines == { ManifestLines, ScrolledLines, ConfigLines }

\* Utils.parseRepositories on each of them, tabulated.
parsed == [ls \in PageLines \cup {<<>>} |-> parseRepositories(ls)]

MaxContainers == 1
MaxCycles == 2

(***************************************************************************)
(* The content script's handlers, as functions of the world w: the page,   *)
(* the App object, the pending timeouts, the cycle count and the list of   *)
(* what the running handler has done so far.                               *)
(***************************************************************************)

\* this.repos = null
NullRepos == [null |-> TRUE]

did(w, op) == [w EXCEPT !.ops = Append(@, op)]

\* CONFIG.RETRY.MAX
RETRY_MAX == 10

\* UI.removeButtons
removeButtons(w) == did([w EXCEPT !.page.buttons = <<>>], "removeButtons")

\* UI.createButton for each record of repos whose key is the id of a line
\* now in the page (UI.renderButtons skips the others), in line order.  A
\* control is kept as its href, the record it opens and the record's type.
RECURSIVE createButtons(_, _)
createButtons(repos, lines) ==
  IF Len(lines) = 0 THEN <<>>
  ELSE LET found == { n \in DOMAIN repos : repos[n].key = Head(lines).id }
       IN  (IF found = {} THEN <<>>
            ELSE LET repo == repos[CHOOSE n \in found : TRUE]
                 IN  << [href |-> repo.url, name |-> repo.name,
                         key |-> repo.key, type |-> repo.type] >>)
             \o createButtons(repos, Tail(lines))

\* C23, mutant of renderButtons: the controls there are stay.
renderButtons_keepsOld(w, repos, container) ==
  IF repos = NullRepos \/ container = 0 THEN w
  ELSE did([w EXCEPT !.page.buttons = @ \o createButtons(repos, w.page.lines)],
           "createButtons")

\* UI.renderButtons
renderButtons(w, repos, container) ==
  LET w1 == removeButtons(w)
  IN  IF repos = NullRepos \/ container = 0 THEN w1
      ELSE did([w1 EXCEPT !.page.buttons = createButtons(repos, w1.page.lines)],
               "createButtons")

\* C15, mutant of update: every pass parses.
update_alwaysReparses(w, reparse) ==
  IF w.page.container = 0 \/ ~w.page.linesContainer THEN did(w, "noContainer")
  ELSE LET w1 == did([w EXCEPT !.app.repos = parsed[w.page.lines]],
                     "parseRepositories")
       IN  renderButtons(w1, w1.app.repos, w1.page.container)

\* C38, mutant of update: the records of a new parse are added to those
\* held, which stay unless the new parse has their name.
update_merges(w, reparse) ==
  IF w.page.container = 0 \/ ~w.page.linesContainer THEN did(w, "noContainer")
  ELSE LET w1 ==
             IF reparse \/ w.app.repos = NullRepos \/ DOMAIN w.app.repos = {}
             THEN did([w EXCEPT !.app.repos =
                                  IF w.app.repos = NullRepos
                                  THEN parsed[w.page.lines]
                                  ELSE parsed[w.page.lines] @@ w.app.repos],
                      "parseRepositories")
             ELSE w
       IN  renderButtons(w1, w1.app.repos, w1.page.container)

\* App.update
update(w, reparse) ==
  IF w.page.container = 0 \/ ~w.page.linesContainer THEN did(w, "noContainer")
  ELSE LET w1 ==
             IF reparse \/ w.app.repos = NullRepos \/ DOMAIN w.app.repos = {}
             THEN did([w EXCEPT !.app.repos = parsed[w.page.lines]],
                      "parseRepositories")
             ELSE w
       IN  renderButtons(w1, w1.app.repos, w1.page.container)

\* App.observeFileTree
observeFileTree(w) ==
  IF w.app.fileTreeObserver \/ ~w.page.fileTree THEN w
  ELSE [w EXCEPT !.app.fileTreeObserver = TRUE]

\* App.observeContent: the observer watches the container element it is given.
observeContent(w, container) == [w EXCEPT !.app.contentObserver = container]

\* C26, mutant of registerGlobalListeners: without the test of
\* listenersRegistered.
registerGlobalListeners_again(w, container) ==
  did([observeContent(observeFileTree(
          [w EXCEPT !.app.listenersRegistered = TRUE]), container)
        EXCEPT !.page.listeners = @ \cup {"resize", "scroll"}],
      "registerGlobalListeners")

\* App.registerGlobalListeners
registerGlobalListeners(w, container) ==
  IF w.app.listenersRegistered THEN w
  ELSE did([observeContent(observeFileTree(
               [w EXCEPT !.app.listenersRegistered = TRUE]), container)
             EXCEPT !.page.listeners = @ \cup {"resize", "scroll"}],
           "registerGlobalListeners")

\* App.unregisterGlobalListeners
unregisterGlobalListeners(w) ==
  IF ~w.app.listenersRegistered THEN w
  ELSE did([w EXCEPT !.app.listenersRegistered = FALSE,
                     !.app.fileTreeObserver = FALSE,
                     !.app.contentObserver = 0,
                     !.page.listeners = @ \ {"resize", "scroll"}],
           "unregisterGlobalListeners")

\* clearTimeout(handle): handle 0 is null; a handle whose timeout has fired
\* or was cleared cancels nothing.
clearTimeout(w, handle) ==
  did([w EXCEPT !.timeouts = { t \in @ : t.id = 0 \/ t.id # handle }],
      "clearTimeout")

\* The handle setTimeout returns: one that no pending timeout has.
newHandle(w) ==
  CHOOSE h \in 1..(Cardinality(w.timeouts) + 1) :
    /\ \A t \in w.timeouts : t.id # h
    /\ \A g \in 1..(h - 1) : \E t \in w.timeouts : t.id = g

\* C16, mutant of debounce: the pending timer is not cleared.
debounce_noClear(w, fn, by) ==
  LET h == newHandle(w)
  IN  did([w EXCEPT !.timeouts = @ \cup {[id |-> h, fn |-> fn, by |-> by,
                                           cycle |-> 0, attempts |-> 0]},
                    !.app.timer = h], "setTimeout")

\* this.timer = setTimeout(fn, CONFIG.DEBOUNCE) after clearTimeout(this.timer):
\* the bodies of handleScroll, handleContentChange and the ResizeObserver
\* callback of observeFileTree.  by is the signal whose handler set the
\* timeout.
debounce(w, fn, by) ==
  LET w1 == clearTimeout(w, w.app.timer)
      h == newHandle(w1)
  IN  did([w1 EXCEPT !.timeouts = @ \cup {[id |-> h, fn |-> fn, by |-> by,
                                            cycle |-> 0, attempts |-> 0]},
                     !.app.timer = h], "setTimeout")

\* C14, mutant of tryLoad: the retry is scheduled whatever the count.
tryLoad_noLimit(w, c, attempts) ==
  LET w0 == did(w, "lookup")
  IN  IF w0.page.container # 0
      THEN registerGlobalListeners(update(w0, TRUE), w0.page.container)
      ELSE did([w0 EXCEPT !.timeouts = @ \cup {[id |-> 0, fn |-> "tryLoad",
                                                by |-> "init", cycle |-> c,
                                                attempts |-> attempts + 1]}],
               "retry")

\* tryLoad of App.init, for the cycle c that called init, attempts being the
\* closure's counter when it runs.  The handle of its setTimeout is dropped:
\* the timeout is kept with id 0, which no clearTimeout cancels.
tryLoad(w, c, attempts) ==
  LET w0 == did(w, "lookup")
  IN  IF w0.page.container # 0
      THEN registerGlobalListeners(update(w0, TRUE), w0.page.container)
      ELSE IF attempts < RETRY_MAX
      THEN did([w0 EXCEPT !.timeouts = @ \cup {[id |-> 0, fn |-> "tryLoad",
                                                by |-> "init", cycle |-> c,
                                                attempts |-> attempts + 1]}],
               "retry")
      ELSE did(w0, "giveUp")

\* App.init
init(w) ==
  IF ~isReposFile(w.page.href) THEN w ELSE tryLoad(w, w.cycle, 0)

\* C11, mutant of processUrl: without the test for the last processed url.
processUrl_always(w, url) ==
  LET w1 == [w EXCEPT !.app.lastUrl = url,
                      !.app.lastTitle = w.page.title,
                      !.cycle = @ + 1]
      w2 == removeButtons(did(w1, "processUrl"))
      w3 == did([w2 EXCEPT !.app.repos = NullRepos], "resetRepos")
      w4 == clearTimeout(unregisterGlobalListeners(w3), w3.app.timer)
  IN  init(w4)

\* C12, mutant of processUrl: the debounce timer is left pending.
processUrl_keepsTimer(w, url) ==
  IF url = w.app.lastUrl THEN w
  ELSE LET w1 == [w EXCEPT !.app.lastUrl = url,
                           !.app.lastTitle = w.page.title,
                           !.cycle = @ + 1]
           w2 == removeButtons(did(w1, "processUrl"))
           w3 == did([w2 EXCEPT !.app.repos = NullRepos], "resetRepos")
       IN  init(unregisterGlobalListeners(w3))

\* App.processUrl
processUrl(w, url) ==
  IF url = w.app.lastUrl THEN w
  ELSE LET w1 == [w EXCEPT !.app.lastUrl = url,
                           !.app.lastTitle = w.page.title,
                           !.cycle = @ + 1]
           w2 == removeButtons(did(w1, "processUrl"))
           w3 == did([w2 EXCEPT !.app.repos = NullRepos], "resetRepos")
           w4 == clearTimeout(unregisterGlobalListeners(w3), w3.app.timer)
       IN  init(w4)

\* App.checkUrl
checkUrl(w) == processUrl(w, w.page.href)

(***************************************************************************)
(* The background script, as functions of n: the tabs.sendMessage calls    *)
(* that have not settled, the tabs a warning was logged for and the        *)
(* rejections nothing caught.                                              *)
(***************************************************************************)

\* CONFIG.GITHUB_MATCH.test(url): the pattern has no anchor, it matches
\* anywhere in the url.
GITHUB_MATCH(url) == includes(url, "https://github.com/")

\* CONFIG.MESSAGE_TYPE
MESSAGE_TYPE == "VCSTOOL_REPOS_URL_CHANGE_DETECTED"

\* NavigationHandler.isGitHubUrl
isGitHubUrl(url) == Truthy(url) /\ GITHUB_MATCH(url)

\* NavigationHandler.notifyTab, up to its await: tabs.sendMessage is called
\* and its promise is pending.
notifyTab(n, tabId, url) ==
  [n EXCEPT !.sending =
     Append(@, [tabId |-> tabId,
                message |-> [type |-> MESSAGE_TYPE, url |-> url]])]

\* NavigationHandler.handleNavigation; a missing tabId is 0.
handleNavigation(n, details) ==
  IF details.tabId = 0 \/ ~isGitHubUrl(details.url) THEN n
  ELSE notifyTab(n, details.tabId, details.url)

\* The listener of tabs.onUpdated.
onUpdated(n, tabId, changeInfo, tab) ==
  IF changeInfo.status = "complete" /\ isGitHubUrl(tab.url)
  THEN notifyTab(n, tabId, tab.url)
  ELSE n

\* The runtime.onMessage listeners of the content script: its entry point
\* adds none.
onMessageListeners == {}

\* sending without its i-th call.
settled(sending, i) ==
  SubSeq(sending, 1, i - 1) \o SubSeq(sending, i + 1, Len(sending))

\* C22, mutant of notifyTab_settles: without the catch.
notifyTab_rethrows(n, i, received) ==
  IF received THEN [n EXCEPT !.sending = settled(@, i)]
  ELSE [n EXCEPT !.sending = settled(@, i),
                 !.uncaught = @ \cup {n.sending[i].tabId}]

\* NavigationHandler.notifyTab, from its await on: the i-th pending
\* sendMessage resolves when a listener of the tab received the message
\* (Logger.info prints nothing, CONFIG.DEBUG being false) and rejects when
\* the tab has no listener: the catch logs a warning.
notifyTab_settles(n, i, received) ==
  IF received THEN [n EXCEPT !.sending = settled(@, i)]
  ELSE [n EXCEPT !.sending = settled(@, i),
                 !.warned = @ \cup {n.sending[i].tabId}]

\* The tab the content script runs in, and the other tabs of the browser.
PageTab == 1
OtherTabs == {2}
Tabs == {PageTab} \cup OtherTabs

\* The locations the other tabs visit.
OtherUrls ==
  { "https://example.com/",
    "https://example.com/?next=https://github.com/o/r",
    "http://github.com/o/r",
    "https://gist.github.com/o/1",
    "https://github.com/o/r" }

MaxSending == 2

\* NavigationHandler.init(): the listeners are added, nothing is in flight.
Background ==
  [tabs |-> [t \in OtherTabs |-> "https://example.com/"],
   sending |-> <<>>, warned |-> {}, uncaught |-> {}]

(***************************************************************************)
(* The state machine: each action is one task of the page's event loop.    *)
(***************************************************************************)

World == [page |-> page, app |-> app, timeouts |-> timeouts, cycle |-> cycle,
          ops |-> <<>>]

\* The task that ran took the world to w.
Becomes(w) ==
  /\ page' = w.page
  /\ app' = w.app
  /\ timeouts' = w.timeouts
  /\ cycle' = w.cycle
  /\ nav' = nav
  /\ call' = call

NoCall == [fn |-> "none", src |-> <<>>, arg |-> <<>>, done |-> TRUE,
           ret |-> undefined]

\* new App(): the state when the content script starts, on any page.
AppInit ==
  /\ page \in { [href |-> u, title |-> t, container |-> 0,
                 linesContainer |-> FALSE, lines |-> <<>>, fileTree |-> f,
                 created |-> 0, buttons |-> <<>>, listeners |-> {}] :
                u \in Urls, t \in Titles, f \in BOOLEAN }
  /\ app = [lastUrl |-> "", lastTitle |-> "", timer |-> 0,
            fileTreeObserver |-> FALSE, contentObserver |-> 0,
            titleObserver |-> FALSE, repos |-> NullRepos,
            listenersRegistered |-> FALSE]
  /\ timeouts = {}
  /\ cycle = 0

Init == AppInit /\ nav = Background /\ call = NoCall

\* The entry point: app.setupTitleObserver(); app.checkUrl().
Load ==
  /\ ~app.titleObserver
  /\ Becomes(checkUrl([World EXCEPT !.app.titleObserver = TRUE]))

\* The host page navigates (history.pushState): location.href changes.
Navigate ==
  /\ app.titleObserver
  /\ \E u \in Urls \ {page.href} :
       Becomes([World EXCEPT !.page.href = u])

\* The host page changes document.head, setting the title to t (or leaving
\* it): the callback of setupTitleObserver runs.
HeadMutation ==
  /\ app.titleObserver
  /\ cycle < MaxCycles \/ page.href = app.lastUrl
  /\ \E t \in Titles :
       LET w == [World EXCEPT !.page.title = t]
       IN  Becomes(IF t # app.lastTitle THEN checkUrl(w) ELSE w)

\* The content observer's callback runs when the subtree of the container it
\* watches has changed: handleContentChange.
contentChanged(w, container) ==
  IF container # 0 /\ w.app.contentObserver = container
  THEN debounce(did(w, "handleContentChange"), "update", "content")
  ELSE w

\* The host page renders the file view: a new container element.
ContainerAppears ==
  /\ app.titleObserver
  /\ page.container = 0
  /\ page.created < MaxContainers
  /\ \E ls \in PageLines \cup {<<>>} :
       /\ Becomes([World EXCEPT !.page.container = page.created + 1,
                                !.page.created = @ + 1,
                                !.page.linesContainer = (ls # <<>>),
                                !.page.lines = ls])

\* The host page removes the file view.
ContainerRemoved ==
  /\ app.titleObserver
  /\ page.container # 0
  /\ Becomes([World EXCEPT !.page.container = 0,
                            !.page.linesContainer = FALSE,
                            !.page.lines = <<>>])

\* The host page re-renders the lines inside the container (virtualization).
LinesRendered ==
  /\ app.titleObserver
  /\ page.container # 0
  /\ \E ls \in PageLines \ {page.lines} :
       Becomes(contentChanged([World EXCEPT !.page.linesContainer = TRUE,
                                            !.page.lines = ls],
                              page.container))

\* The file tree is resized: the ResizeObserver callback of observeFileTree.
FileTreeResized ==
  /\ app.fileTreeObserver
  /\ Becomes(debounce(did(World, "fileTreeObserver"), "handleResize",
                       "fileTree"))

\* A scroll event: handleScroll.
Scroll ==
  /\ "scroll" \in page.listeners
  /\ Becomes(debounce(did(World, "handleScroll"), "update", "scroll"))

\* C17, mutant of WindowResize: handleResize debounced as handleScroll is.
WindowResize_debounced ==
  /\ "resize" \in page.listeners
  /\ Becomes(debounce(did(World, "handleResize"), "handleResize", "resize"))

\* A resize event of the window: handleResize, which is updateWithoutReparse.
WindowResize ==
  /\ "resize" \in page.listeners
  /\ Becomes(update(did(World, "handleResize"), FALSE))

\* The callback of the pending timeout t, run in world w: tryLoad, or the
\* debounced update(true) or handleResize.
callback(w, t) ==
  CASE t.fn = "tryLoad" -> tryLoad(w, t.cycle, t.attempts)
    [] t.fn = "update" -> update(w, TRUE)
    [] t.fn = "handleResize" -> update(w, FALSE)

\* The pending timeout t fires.
fires(t) == Becomes(callback([World EXCEPT !.timeouts = @ \ {t}], t))

Timeout == \E t \in timeouts : fires(t)

Next ==
  \/ Load
  \/ Navigate
  \/ HeadMutation
  \/ ContainerAppears
  \/ ContainerRemoved
  \/ LinesRendered
  \/ FileTreeResized
  \/ Scroll
  \/ WindowResize
  \/ Timeout

Spec == Init /\ [][Next]_vars

\* The timeouts of the content script fire; nothing makes the host page
\* or the user act.
LiveSpec == Spec /\ WF_vars(Timeout)

(***************************************************************************)
(* Utils.parseRepositories as a pure function: called on a manifest.       *)
(***************************************************************************)

\* The content script at rest on a manifest page.
Idle ==
  /\ AppInit
  /\ page.href = "https://github.com/o/r/blob/main/a.repos"
  /\ page.title = "r/a.repos at main"
  /\ ~page.fileTree
  /\ nav = Background

ParserInit ==
  /\ Idle
  /\ call \in { [fn |-> "parseRepositories", src |-> d, arg |-> sourceLines(d),
                 done |-> FALSE, ret |-> undefined] : d \in Manifests }

parseCall ==
  /\ call.fn = "parseRepositories"
  /\ ~call.done
  /\ call' = [call EXCEPT !.done = TRUE, !.ret = parseRepositories(call.arg)]
  /\ UNCHANGED <<page, app, timeouts, cycle, nav>>

ParserSpec == ParserInit /\ [][parseCall]_vars

(***************************************************************************)
(* Utils.convertSshToHttp as a pure function: called on a url.             *)
(***************************************************************************)

Domains == { "github.com", "example.com", "git.my-host.io" }
Owners == { "org", "owner", "my-org" }
Names == { "foo", "repo", "a.b", "r_1" }

\* The urls of the shape git@<domain>:<owner>/<repo>.git, each with its parts.
Shaped ==
  { [shape |-> TRUE, domain |-> d, owner |-> o, repo |-> r,
     url |-> "git@" \o d \o ":" \o o \o "/" \o r \o ".git"] :
      d \in Domains, o \in Owners, r \in Names }

\* Urls that miss the shape, each by one defect.
Misshapen ==
  UNION { { "git@" \o d \o ":" \o o \o "/" \o r,
            "git@" \o d \o ":" \o o \o "/sub/" \o r \o ".git",
            "git@" \o d \o ":" \o r \o ".git",
            "git@" \o d \o "/" \o o \o "/" \o r \o ".git",
            "ssh://git@" \o d \o ":" \o o \o "/" \o r \o ".git",
            "https://" \o d \o "/" \o o \o "/" \o r \o ".git",
            " git@" \o d \o ":" \o o \o "/" \o r \o ".git",
            "git@" \o d \o ":" \o o \o "/" \o r \o ".git/",
            "git@" \o d \o ":" \o o \o "/" \o r \o ".GIT",
            "git@" \o d \o ":" \o o \o "/" \o r \o " x.git",
            "git@" \o d \o ":" \o o \o "/.git",
            "git@" \o d \o ":/" \o r \o ".git",
            "git@:" \o o \o "/" \o r \o ".git" } :
          d \in Domains, o \in Owners, r \in Names }
    \cup { "not-an-ssh-url", "", "git@", ".git" }

ConvertInit ==
  /\ Idle
  /\ call \in { [fn |-> "convertSshToHttp", src |-> u, arg |-> u.url,
                 done |-> FALSE, ret |-> undefined] :
                u \in Shaped \cup { [shape |-> FALSE, url |-> m] :
                                      m \in Misshapen } }

convertCall ==
  /\ call.fn = "convertSshToHttp"
  /\ ~call.done
  /\ call' = [call EXCEPT !.done = TRUE, !.ret = convertSshToHttp(call.arg)]
  /\ UNCHANGED <<page, app, timeouts, cycle, nav>>

ConvertSpec == ConvertInit /\ [][convertCall]_vars

(***************************************************************************)
(* Utils.isReposFile as a pure function: called on a url.                  *)
(***************************************************************************)

Hosts == { "github.com", "git.repos.example" }
Folders == { "o/r/blob/main", "o/ros.repos/blob/main", "o/r/tree/main/a.repos.d" }

\* File names, the final segment of the path, each with whether it contains
\* '.repos'.
FileNames ==
  { [text |-> "a.repos", marked |-> TRUE],
    [text |-> "ros2.repos.yaml", marked |-> TRUE],
    [text |-> ".repos", marked |-> TRUE],
    [text |-> "README.md", marked |-> FALSE],
    [text |-> "repos", marked |-> FALSE],
    [text |-> "", marked |-> FALSE] }

\* Query strings and fragments.
Suffixes == { "", "?plain=1", "#L10", "?file=b.repos", "#a.repos" }

\* The page urls, each with its parts.
PageUrls ==
  { [host |-> h, folder |-> d, file |-> f, suffix |-> x,
     url |-> "https://" \o h \o "/" \o d \o "/" \o f.text \o x] :
      h \in Hosts, d \in Folders, f \in FileNames, x \in Suffixes }

FilterInit ==
  /\ Idle
  /\ call \in { [fn |-> "isReposFile", src |-> u, arg |-> u.url,
                 done |-> FALSE, ret |-> undefined] : u \in PageUrls }

filterCall ==
  /\ call.fn = "isReposFile"
  /\ ~call.done
  /\ call' = [call EXCEPT !.done = TRUE, !.ret = isReposFile(call.arg)]
  /\ UNCHANGED <<page, app, timeouts, cycle, nav>>

FilterSpec == FilterInit /\ [][filterCall]_vars

(***************************************************************************)
(* Utils.parseRepositories on manifests as users write and the page shows  *)
(* them: one block with a line added, fields with empty values, urls of    *)
(* other schemes, lines before the first name line, a block after it.      *)
(***************************************************************************)

\* The values of the 'url:' line.
FieldUrls ==
  { "https://h/o/r.git", "http://h/o/r.git", "ssh://git@h/o/r.git",
    "javascript:alert(1)", "git@h:o/r.git" }

\* The field lines of the block.
Bodies ==
  { << "type: git", "url: " \o u >> : u \in FieldUrls }
    \cup { << >>,
           << "url: https://h/o/r.git", "type: git" >>,
           << "type: git", "url: https://h/o/r.git", "version: main" >>,
           << "type: git", "url: https://h/o/r.git", "version: " \o Hash39 >>,
           << "type: git", "url: https://h/o/r.git", "version: " \o Hash40 >> }

\* The most field lines a block of Bodies has.
MaxFields == 3

\* The line added to the block: a version without value, a field the parser
\* does not know, with and without value, a blank line, a comment.
AddedLines ==
  { "version:", "version:   # none", "extra:", "depth: 1", "", "# note" }

\* What stands between the top of the rendered lines and the block: nothing,
\* or the field lines of a block whose name line is not rendered.
Preambles == { << >>, << "type: git", "url: https://github.com/org/bar.git" >> }

\* What follows the block: nothing, a block of the same name, another block.
Followers ==
  { << >>,
    << "pkg/foo:", "type: git", "url: https://github.com/org/foo2.git" >>,
    << "pkg/bar:", "type: git", "url: https://github.com/org/bar.git" >> }

\* The manifests: the block 'pkg/foo:' with body, the line added before its
\* at-th field line (after the last one when at is one more than their
\* number; added is undefined when no line is added), rendered from line
\* first on, with or without the outer 'repositories:' line.
EdgeManifests ==
  { [first |-> f, header |-> h, preamble |-> pre, body |-> b, added |-> a,
     at |-> k, follower |-> fol] :
      f \in {1, 2}, h \in BOOLEAN, pre \in Preambles, b \in Bodies,
      a \in AddedLines \cup {undefined}, k \in 1..(MaxFields + 1),
      fol \in Followers }

\* The texts of the block's field lines, the added line among them.
withAdded(src) ==
  IF src.added = undefined THEN src.body
  ELSE SubSeq(src.body, 1, src.at - 1) \o << src.added >>
         \o SubSeq(src.body, src.at, Len(src.body))

\* The line elements of the texts, rendered from file line first on: name
\* lines indented by two, the other lines by four.
rendered(first, texts) ==
  [i \in 1..Len(texts) |->
     [id |-> LineId(first + i - 1),
      innerText |->
        IF texts[i] \in {"", "repositories:"} THEN texts[i]
        ELSE IF texts[i] \in {"pkg/foo:", "pkg/bar:"} THEN "  " \o texts[i]
        ELSE "    " \o texts[i]]]

\* The line elements of a manifest, with the given field lines in its block.
edgeLines(src, fields) ==
  rendered(src.first,
           (IF src.header THEN << "repositories:" >> ELSE << >>)
             \o src.preamble \o << "pkg/foo:" >> \o fields \o src.follower)

EdgeInit ==
  /\ Idle
  /\ call \in { [fn |-> "parseRepositories", src |-> m,
                 arg |-> edgeLines(m, withAdded(m)),
                 done |-> FALSE, ret |-> undefined] :
                m \in { e \in EdgeManifests :
                          /\ e.at <= Len(e.body) + 1
                          /\ e.added = undefined => e.at = 1 } }

EdgeSpec == EdgeInit /\ [][parseCall]_vars

(***************************************************************************)
(* The background script and the tab of the content script: the browser    *)
(* reports the navigations of its tabs, NavigationHandler forwards them.   *)
(***************************************************************************)

\* The content script starts on a page of the repository that is no
\* manifest.
NavInit ==
  /\ AppInit
  /\ page.href = "https://github.com/o/r/blob/main/config.yml"
  /\ nav = Background
  /\ call = NoCall

\* The location of tab t.
tabUrl(t) == IF t = PageTab THEN page.href ELSE nav.tabs[t]

\* Where tab t can go: the page's tab stays on the site.
targets(t) == IF t = PageTab THEN Urls ELSE OtherUrls

\* Tab t is at url now; the listener took the background script to n.  The
\* content script has no handler for a change of location.
visits(t, url, n) ==
  /\ page' = IF t = PageTab THEN [page EXCEPT !.href = url] ELSE page
  /\ nav' = IF t = PageTab THEN n ELSE [n EXCEPT !.tabs[t] = url]
  /\ UNCHANGED <<app, timeouts, cycle, call>>

\* webNavigation.onHistoryStateUpdated: tab t went to url by pushState.
onHistoryStateUpdated(t, url) ==
  /\ Len(nav.sending) < MaxSending
  /\ t = PageTab => app.titleObserver
  /\ visits(t, url, handleNavigation(nav, [tabId |-> t, url |-> url]))

HistoryStateUpdated ==
  \E t \in Tabs : \E url \in targets(t) \ {tabUrl(t)} :
    onHistoryStateUpdated(t, url)

\* webNavigation.onCommitted: another tab loaded url.
onCommitted(t, url) ==
  /\ Len(nav.sending) < MaxSending
  /\ visits(t, url, handleNavigation(nav, [tabId |-> t, url |-> url]))

Committed == \E t \in OtherTabs : \E url \in targets(t) : onCommitted(t, url)

\* webNavigation.onReferenceFragmentUpdated: tab t went to a line of the
\* document it shows.
onReferenceFragmentUpdated(t, url) ==
  /\ Len(nav.sending) < MaxSending
  /\ t = PageTab => app.titleObserver
  /\ visits(t, url, handleNavigation(nav, [tabId |-> t, url |-> url]))

ReferenceFragmentUpdated ==
  \E t \in Tabs :
    /\ ~includes(tabUrl(t), "#")
    /\ onReferenceFragmentUpdated(t, tabUrl(t) \o "#L1")

\* tabs.onUpdated: tab t reports its status.
onTabUpdated(t, status) ==
  /\ Len(nav.sending) < MaxSending
  /\ nav' = onUpdated(nav, t, [status |-> status], [url |-> tabUrl(t)])
  /\ UNCHANGED <<page, app, timeouts, cycle, call>>

TabUpdated ==
  \E t \in Tabs : \E status \in {"loading", "complete"} :
    onTabUpdated(t, status)

\* The i-th pending tabs.sendMessage settles: the message is handed to the
\* runtime.onMessage listeners of the tab's content script, of which there
\* are none, and notifyTab goes on.
settles(i) ==
  LET m == nav.sending[i]
      received == m.tabId = PageTab /\ app.titleObserver
                    /\ onMessageListeners # {}
  IN  /\ nav' = notifyTab_settles(nav, i, received)
      /\ UNCHANGED <<page, app, timeouts, cycle, call>>

SendMessageSettles == \E i \in DOMAIN nav.sending : settles(i)

NavNext ==
  \/ Load
  \/ HistoryStateUpdated
  \/ Committed
  \/ ReferenceFragmentUpdated
  \/ TabUpdated
  \/ SendMessageSettles

NavSpec == NavInit /\ [][NavNext]_vars

(***************************************************************************)
(* What a described manifest says.                                         *)
(***************************************************************************)

Returned(fn) == call.fn = fn /\ call.done

Blocks == call.src.blocks

\* The value the last k line of the block gives, undefined without one.
given(block, k) ==
  LET at == { i \in 1..Len(block.body) : block.body[i].k = k }
  IN  IF at = {} THEN undefined
      ELSE block.body[CHOOSE i \in at : \A j \in at : j <= i].v

\* The number of lines of the blocks before block j.
RECURSIVE linesBefore(_, _)
linesBefore(blocks, j) ==
  IF j <= 1 THEN 0
  ELSE 1 + Len(blocks[j - 1].body) + linesBefore(blocks, j - 1)

\* The id of the key line of block j.
keyId(src, j) ==
  LineId(src.rendering.first + (IF src.rendering.header THEN 1 ELSE 0)
           + linesBefore(src.blocks, j))

\* Block j is the first of its name.
firstOfName(blocks, j) ==
  \A i \in 1..(j - 1) : blocks[i].key.name # blocks[j].key.name

gitLike(block) == includes(given(block, "type"), "git")

\* The versions of the table that are 40 characters, all in 0-9a-f.
CommitHashes == { Hash40 }

\* The link the version suffix rule gives the block.
expectedLink(block) ==
  LET base == given(block, "url")
      version == given(block, "version")
      stem == IF endsWith(base, ".git") THEN SubSeq(base, 1, Len(base) - 4)
              ELSE base
  IN  IF version = undefined THEN stem
      ELSE IF version \in CommitHashes THEN stem \o "/blob/" \o version
      ELSE stem \o "/tree/" \o version

\* The record of the block j of the manifest.
recordOf(src, j) ==
  LET b == src.blocks[j]
  IN  [name |-> b.key.name, key |-> keyId(src, j), type |-> given(b, "type"),
       url |-> expectedLink(b), version |-> given(b, "version")]

(***************************************************************************)
(* Properties.                                                             *)
(***************************************************************************)

\* What a cycle's callback must no longer do once a newer cycle has started.
CycleEffects == { "parseRepositories", "createButtons",
                  "registerGlobalListeners" }

\* C1: once processUrl has started a newer cycle, a retry callback (tryLoad)
\* scheduled by an older cycle that fires neither parses lines, nor creates
\* overlay controls, nor registers listeners, whatever the page shows.
C1_CycleCancellation ==
  [][\A t \in timeouts :
       (t.fn = "tryLoad" /\ t.cycle # cycle /\ fires(t)) =>
         LET w == callback([World EXCEPT !.timeouts = @ \ {t}], t)
         IN  \A i \in 1..Len(w.ops) : w.ops[i] \notin CycleEffects]_vars

\* The lines of the scenario of C2, trimmed.
FooLines ==
  << "pkg/foo:", "type: git", "url: git@github.com:org/foo.git",
     "version: main" >>

\* C2: parsing the lines 'pkg/foo:', 'type: git',
\* 'url: git@github.com:org/foo.git', 'version: main', however indented,
\* returns exactly one record, named 'pkg/foo', of type 'git', version 'main'
\* and url 'https://github.com/org/foo/tree/main'.
C2_SshTreeLink ==
  (/\ Returned("parseRepositories")
   /\ [i \in 1..Len(call.arg) |-> trim(call.arg[i].innerText)] = FooLines)
    => call.ret = ("pkg/foo" :> [name |-> "pkg/foo", key |-> call.arg[1].id,
                                 type |-> "git",
                                 url |-> "https://github.com/org/foo/tree/main",
                                 version |-> "main"])

\* C2, witness: the four lines as the scenario writes them have been parsed
\* into one record.
C2_Parsed ==
  /\ Returned("parseRepositories")
  /\ [i \in 1..Len(call.arg) |-> call.arg[i].innerText]
       = << "pkg/foo:", "  type: git", "  url: git@github.com:org/foo.git",
            "  version: main" >>
  /\ DOMAIN call.ret = {"pkg/foo"}

\* C3: the url of every record the parser returns is the url its block gives
\* (converted to HTTPS) without the trailing '.git', followed by nothing when
\* the block gives no version, by '/blob/<version>' when the version is 40
\* characters all in 0-9a-f, and by '/tree/<version>' for any other version.
C3_VersionSuffix ==
  Returned("parseRepositories") =>
    \A j \in 1..Len(Blocks) : \A n \in DOMAIN call.ret :
      call.ret[n].key = keyId(call.src, j) =>
        call.ret[n].url = expectedLink(Blocks[j])

\* C3, witness: a record whose version is 40 hex characters in upper case has
\* been returned, with a '/tree/' link.
C3_UpperCaseHashIsTree ==
  /\ Returned("parseRepositories")
  /\ \E n \in DOMAIN call.ret :
       /\ call.ret[n].version = Hash40Upper
       /\ call.ret[n].url = "https://github.com/org/bar/tree/" \o Hash40Upper

\* C4: when a manifest holds two complete blocks (type git and a url in both)
\* of the same name and different urls, the mapping holds exactly one record
\* for the name, and its fields are those of the first block.
C4_FirstWins ==
  (/\ Returned("parseRepositories")
   /\ Len(Blocks) = 2
   /\ Blocks[1].key.name = Blocks[2].key.name
   /\ \A j \in 1..2 : gitLike(Blocks[j]) /\ Truthy(given(Blocks[j], "url"))
   /\ given(Blocks[1], "url") # given(Blocks[2], "url"))
    => call.ret = (Blocks[1].key.name :> recordOf(call.src, 1))

\* C5: no overlay control exists for a block whose type does not contain
\* 'git'; the block 'pkg/old' of type hg never has one.
C5_NonGitNeverDisplayed ==
  \A i \in 1..Len(page.buttons) :
    includes(page.buttons[i].type, "git") /\ page.buttons[i].name # "pkg/old"

\* C5, witness: the manifest with the hg block is rendered, and the controls
\* of its two git blocks exist.
C5_ManifestDisplayed ==
  /\ page.lines = ManifestLines
  /\ Len(page.buttons) = 2

filler(line) ==
  LET text == trim(line.innerText)
  IN  text = "" \/ startsWith(text, "#")

\* C7: the parser returns the same mapping for a manifest and for the
\* manifest without any one of the blank or comment lines of its blocks: such
\* a line changes neither the record of its block nor that of another block.
C7_FillerTolerance ==
  Returned("parseRepositories") =>
    \A p \in 1..Len(call.arg) :
      filler(call.arg[p]) =>
        parseRepositories(SubSeq(call.arg, 1, p - 1)
                            \o SubSeq(call.arg, p + 1, Len(call.arg)))
          = call.ret

\* C7, witness: a block with a comment line between its type and url lines
\* has been parsed into a record.
C7_CommentBetweenFields ==
  /\ Returned("parseRepositories")
  /\ Len(Blocks) = 1
  /\ [i \in 1..Len(Blocks[1].body) |-> Blocks[1].body[i].k]
       = << "type", "comment", "url" >>
  /\ DOMAIN call.ret = {"pkg/foo"}

\* C9: convertSshToHttp returns 'https://<domain>/<owner>/<repo>.git' for a
\* url of the shape 'git@<domain>:<owner>/<repo>.git', and null for any
\* other url.
C9_SshConversion ==
  Returned("convertSshToHttp") =>
    IF call.src.shape
    THEN call.ret = "https://" \o call.src.domain \o "/" \o call.src.owner
                      \o "/" \o call.src.repo \o ".git"
    ELSE call.ret = null

\* C9, witness: 'git@example.com:owner/repo.git' has been converted.
C9_ExampleConverted ==
  /\ Returned("convertSshToHttp")
  /\ call.arg = "git@example.com:owner/repo.git"
  /\ call.ret = "https://example.com/owner/repo.git"

\* C10: a block that is the first of its name, with a type containing 'git'
\* and a url but no version line, is in the mapping, its url the url given
\* without the trailing '.git'.
C10_VersionOptional ==
  Returned("parseRepositories") =>
    \A j \in 1..Len(Blocks) :
      (/\ firstOfName(Blocks, j)
       /\ gitLike(Blocks[j])
       /\ Truthy(given(Blocks[j], "url"))
       /\ given(Blocks[j], "version") = undefined)
        => /\ Blocks[j].key.name \in DOMAIN call.ret
           /\ call.ret[Blocks[j].key.name] = recordOf(call.src, j)


\* The debounce timers pending (the retry timers of init have no handle).
debounceTimers(ts) == { t \in ts : t.id # 0 }

\* C11: processUrl(url) with url the last processed url changes nothing: the
\* fields of the App (last url, records, timer, observers, listeners flag),
\* the overlay controls, the window's listeners, the pending timeouts and the
\* cycle are as they were.
C11_DuplicateSignalNoOp ==
  [][(/\ page.href = app.lastUrl
      /\ \E t \in Titles :
           /\ t # app.lastTitle
           /\ Becomes(checkUrl([World EXCEPT !.page.title = t])))
       => /\ app' = app
          /\ timeouts' = timeouts
          /\ cycle' = cycle
          /\ page'.buttons = page.buttons
          /\ page'.listeners = page.listeners]_vars

\* C11, witness: the watcher is active with controls shown and a retry or
\* debounce timer pending, and the title observer has signalled the url it
\* had already processed.
C11_DuplicateSignalled ==
  /\ page.href = app.lastUrl
  /\ page.title # app.lastTitle
  /\ app.listenersRegistered
  /\ Len(page.buttons) > 0
  /\ timeouts # {}

\* The statements of processUrl before init, given whether the listeners
\* were registered.
teardownOps(registered) ==
  << "processUrl", "removeButtons", "resetRepos" >>
    \o (IF registered THEN << "unregisterGlobalListeners" >> ELSE << >>)
    \o << "clearTimeout" >>

\* C12: processUrl with a url other than the last processed one removes the
\* overlay controls, resets the records, unregisters the listeners and
\* disconnects the observers, and cancels the debounce timer, in this order
\* and before the first container lookup of init; no debounce timer is
\* pending when it returns, and an observer connected then is one the new
\* cycle connected.
C12_TeardownBeforeRestart ==
  \A u \in Urls \ {app.lastUrl} :
    LET w == processUrl([World EXCEPT !.page.href = u], u)
        n == Len(teardownOps(app.listenersRegistered))
    IN  /\ Len(w.ops) >= n
        /\ SubSeq(w.ops, 1, n) = teardownOps(app.listenersRegistered)
        /\ \A i \in 1..Len(w.ops) : w.ops[i] = "lookup" => i > n
        /\ debounceTimers(w.timeouts) = {}
        /\ \A i \in 1..Len(w.ops) :
             w.ops[i] = "registerGlobalListeners" => i > n
        /\ (page.container = 0 \/ ~isReposFile(u))
             => /\ w.page.buttons = << >>
                /\ w.app.repos = NullRepos
                /\ ~w.app.listenersRegistered
                /\ w.app.contentObserver = 0
                /\ ~w.app.fileTreeObserver
                /\ w.page.listeners = {}

\* C12, witness: the page has navigated to a url not yet processed while
\* controls are shown, the listeners are registered, the observers are
\* connected and a debounce timer is pending.
C12_NavigatedWhileActive ==
  /\ page.href # app.lastUrl
  /\ Len(page.buttons) > 0
  /\ app.listenersRegistered
  /\ app.contentObserver # 0
  /\ app.fileTreeObserver
  /\ \E t \in timeouts : t.id # 0 /\ t.id = app.timer

\* C13: when processUrl has run for a new url, no timer of an earlier cycle
\* is pending (neither a debounce timer nor a retry timer of init) and no
\* observer of an earlier cycle is connected.
C13_NoTimerSurvivesTeardown ==
  [][cycle' # cycle =>
       /\ \A t \in timeouts' : t.fn = "tryLoad" /\ t.cycle = cycle'
       /\ app'.contentObserver \in {0, page'.container}]_vars

\* C14: a retry timer of init has run at most RETRY_MAX retries, and a cycle
\* has at most one pending; when it fires and there is no container it
\* changes nothing of the page or the App, and it schedules one more retry
\* only while the count is below RETRY_MAX, none at RETRY_MAX.
C14_BoundedInit ==
  \A t \in timeouts :
    t.fn = "tryLoad" =>
      /\ t.attempts \in 1..RETRY_MAX
      /\ \A t2 \in timeouts :
           (t2.fn = "tryLoad" /\ t2.cycle = t.cycle) => t2 = t
      /\ page.container = 0 =>
           LET w == callback([World EXCEPT !.timeouts = @ \ {t}], t)
           IN  /\ w.page = page
               /\ w.app = app
               /\ w.timeouts =
                    (timeouts \ {t})
                      \cup (IF t.attempts < RETRY_MAX
                            THEN {[t EXCEPT !.attempts = @ + 1]}
                            ELSE {})

\* C14, witness: a manifest url has been processed, no container has ever
\* appeared, and the retry loop has ended: no timer is pending, no listener
\* is registered and no control is shown.
C14_GaveUp ==
  /\ cycle = 1
  /\ page.href = app.lastUrl
  /\ isReposFile(page.href)
  /\ page.created = 0
  /\ timeouts = {}
  /\ ~app.listenersRegistered
  /\ page.buttons = << >>


\* Records are held: this.repos is neither null nor an empty mapping.
held(repos) == repos # NullRepos /\ DOMAIN repos # {}

\* What the handler that took the world to w has done.
Ops(w) == { w.ops[i] : i \in 1..Len(w.ops) }

\* The pending timeout t fires and the pass it runs does not parse and
\* leaves the records as they are.
repositionOnly(t) ==
  fires(t) =>
    /\ app'.repos = app.repos
    /\ "parseRepositories"
         \notin Ops(callback([World EXCEPT !.timeouts = @ \ {t}], t))

\* The window is resized and the pass it runs does not parse and leaves the
\* records as they are.
resizeRepositionOnly ==
  WindowResize =>
    /\ app'.repos = app.repos
    /\ "parseRepositories" \notin Ops(update(did(World, "handleResize"), FALSE))

C16_DebounceCollapsesBursts ==
  [][(\/ Scroll
      \/ (LinesRendered /\ page.container # 0
            /\ app.contentObserver = page.container))
       => /\ \E t \in timeouts' :
               /\ debounceTimers(timeouts') = {t}
               /\ t.fn = "update"
               /\ t.id = app'.timer
          /\ timeouts' \ debounceTimers(timeouts')
               = timeouts \ debounceTimers(timeouts)
          /\ page'.buttons = page.buttons
          /\ app'.repos = app.repos]_vars

\* C16, witness: the timer of a content-mutation signal is pending while the
\* scroll listener is registered and the content observer is connected.
C16_BurstInProgress ==
  /\ "scroll" \in page.listeners
  /\ page.container # 0 /\ app.contentObserver = page.container
  /\ \E t \in timeouts : t.by = "content" /\ t.id = app.timer

C18_MutationNeverLost ==
  [][(/\ held(app.repos)
      /\ page.container # 0 /\ page.linesContainer
      /\ \E t \in timeouts : t.by = "content"
      /\ cycle' = cycle)
       => \/ \E t \in timeouts' : t.fn = "update"
          \/ \E t \in timeouts : t.fn = "update" /\ fires(t)]_vars


\* A url line whose value starts with 'git@' and is not of the SSH form.
malformed(line) == line.k = "url" /\ line.v = null

\* The block without its malformed url lines.
wellFormed(block) ==
  [block EXCEPT !.body = SelectSeq(@, LAMBDA line : ~malformed(line))]

\* C19: a malformed SSH url line contributes nothing: a block that is the
\* first of its name (a name that is no key of Object.prototype, see C10),
\* with a type containing 'git', a malformed url line and another url line,
\* has the record of the block without the malformed line.
C19_MalformedUrlDropped ==
  Returned("parseRepositories") =>
    \A j \in 1..Len(Blocks) :
      (/\ firstOfName(Blocks, j)
       /\ Blocks[j].key.name \notin ObjectPrototypeKeys
       /\ gitLike(Blocks[j])
       /\ \E i \in 1..Len(Blocks[j].body) : malformed(Blocks[j].body[i])
       /\ Truthy(given(wellFormed(Blocks[j]), "url")))
        => /\ Blocks[j].key.name \in DOMAIN call.ret
           /\ call.ret[Blocks[j].key.name].key = keyId(call.src, j)
           /\ call.ret[Blocks[j].key.name].url
                = expectedLink(wellFormed(Blocks[j]))

\* C20: a url is a manifest page exactly when the final segment of its path,
\* without query string and fragment, contains '.repos'.
C20_FinalSegmentOnly ==
  Returned("isReposFile") => (call.ret = call.src.file.marked)


\* url is of the origin https://github.com.
ofGitHub(url) == startsWith(url, "https://github.com/")

\* Tab t being at url, the step reports a navigation of t to the background
\* script, or the completion of its load.
reports(t, url) ==
  \/ onHistoryStateUpdated(t, url)
  \/ onCommitted(t, url)
  \/ onReferenceFragmentUpdated(t, url)
  \/ onTabUpdated(t, "complete")

\* The step sends tab t the change-detected message with url, and nothing
\* else.
forwards(t, url) ==
  nav'.sending = Append(nav.sending,
                        [tabId |-> t,
                         message |-> [type |-> MESSAGE_TYPE, url |-> url]])

\* C21: for every navigation event and every completed tab update, the
\* change-detected message {type, url} is sent if and only if the event's
\* url is of the origin https://github.com, and then with the event's own
\* url, to the event's own tab; a url of another domain that contains
\* 'https://github.com/' in its path or query is not forwarded.
C21_NavigationFilter ==
  [][\A t \in Tabs :
       LET url == IF t = PageTab THEN page'.href ELSE nav'.tabs[t]
       IN  reports(t, url) =>
             IF ofGitHub(url) THEN forwards(t, url)
             ELSE nav'.sending = nav.sending]_vars

\* C22: a tabs.sendMessage that fails (the tab has no listener) is caught in
\* notifyTab: no rejection is left uncaught, the failure is logged as a
\* warning, and every event reported afterwards is filtered and forwarded by
\* its own tabId and url alone, whatever failed before.
C22_DeliveryFailureNonFatal ==
  [][/\ nav'.uncaught = {}
     /\ \A i \in DOMAIN nav.sending :
          settles(i) =>
            /\ nav'.sending = settled(nav.sending, i)
            /\ nav'.warned = nav.warned \cup {nav.sending[i].tabId}
     /\ \A t \in Tabs :
          LET url == IF t = PageTab THEN page'.href ELSE nav'.tabs[t]
          IN  reports(t, url) =>
                IF isGitHubUrl(url) THEN forwards(t, url)
                ELSE nav'.sending = nav.sending]_vars

\* C22, witness: a delivery has failed, and the pending sends have been
\* filled up again since: an event after the failure was forwarded.
C22_ForwardedAfterFailure ==
  /\ nav.warned # {}
  /\ Len(nav.sending) = MaxSending

\* The mappings a render can be given: the records held, and those of every
\* rendering of the page.
Mappings == {app.repos} \cup { parsed[ls] : ls \in PageLines }

\* The number of controls of the record named n.
controlsOf(buttons, n) ==
  Cardinality({ i \in 1..Len(buttons) : buttons[i].name = n })

\* The ids of the lines now in the page.
lineIds == { page.lines[i].id : i \in 1..Len(page.lines) }

\* C23: whatever controls exist, UI.renderButtons(repos, container) leaves
\* exactly one control for each record of repos whose key is the id of a
\* line now in the page, none for a record whose key is the id of no such
\* line, and no other control; the control of a record carries its url.
C23_RenderReplaces ==
  \A repos \in Mappings :
    (repos # NullRepos /\ page.container # 0) =>
      LET buttons == renderButtons(World, repos, page.container).page.buttons
      IN  /\ \A n \in DOMAIN repos :
               controlsOf(buttons, n)
                 = IF repos[n].key \in lineIds THEN 1 ELSE 0
          /\ \A i \in 1..Len(buttons) :
               /\ buttons[i].name \in DOMAIN repos
               /\ buttons[i].href = repos[buttons[i].name].url
               /\ buttons[i].key = repos[buttons[i].name].key

\* C23, witness: a render has left a control for one record held and none
\* for another, whose line is not in the page.
C23_RecordSkipped ==
  /\ held(app.repos)
  /\ page.container # 0
  /\ page.buttons # <<>>
  /\ \E n \in DOMAIN app.repos :
       /\ app.repos[n].key \notin lineIds
       /\ controlsOf(page.buttons, n) = 0
  /\ \A i \in 1..Len(page.buttons) : page.buttons[i].key \in lineIds

\* C24: when the change-detected message sent to the content script's tab
\* is delivered while the page's location differs from the last processed
\* url, the content script processes the location: a new cycle starts and
\* the last processed url becomes the location.
C24_NotificationReachesPage ==
  [][\A i \in DOMAIN nav.sending :
       (/\ settles(i)
        /\ nav.sending[i].tabId = PageTab
        /\ nav.sending[i].message.type = MESSAGE_TYPE
        /\ app.titleObserver
        /\ page.href # app.lastUrl)
         => /\ app'.lastUrl = page.href
            /\ cycle' = cycle + 1]_vars

\* C25: when the page's location has become a url other than the last
\* processed one, then App.processUrl eventually runs for it (it becomes the
\* last processed url) unless the location changes again, whether or not the
\* document title changes.
C25_UrlChangeProcessed ==
  \A u \in Urls :
    (app.titleObserver /\ page.href = u /\ app.lastUrl # u)
      ~> (app.lastUrl = u \/ page.href # u)

\* How many times the handler did op.
count(ops, op) == Cardinality({ i \in 1..Len(ops) : ops[i] = op })

\* The handler that took the world to w ran an attempt of the init loop
\* that found the container.
foundContainer(w) == count(w.ops, "lookup") = 1 /\ w.page.container # 0

\* After the attempt found the container, the listeners are registered and
\* the loop of cycle c has no retry pending and scheduled none.
activeAfter(w, c) ==
  /\ w.app.listenersRegistered
  /\ {"resize", "scroll"} \subseteq w.page.listeners
  /\ count(w.ops, "retry") = 0
  /\ \A t \in w.timeouts : ~(t.fn = "tryLoad" /\ t.cycle = c)

\* C26, as stated: the attempt that found the container did one parse and
\* one render, and then registered the listeners.
initializes(w, c) ==
  foundContainer(w) =>
    /\ count(w.ops, "parseRepositories") = 1
    /\ count(w.ops, "createButtons") = 1
    /\ count(w.ops, "registerGlobalListeners") = 1
    /\ w.ops[Len(w.ops)] = "registerGlobalListeners"
    /\ w.app.contentObserver = w.page.container
    /\ activeAfter(w, c)

\* C26, amended: one parse and one render of the lines when the container
\* has its lines container, neither without it; the listeners are
\* registered by the attempt exactly when they were not (registered), the
\* content observer then watching the container found, and are registered
\* after it; when they were, the observers stay as they are.
initializesWhatIsThere(w, c, registered) ==
  foundContainer(w) =>
    /\ count(w.ops, "parseRepositories")
         = (IF w.page.linesContainer THEN 1 ELSE 0)
    /\ count(w.ops, "createButtons") = (IF w.page.linesContainer THEN 1 ELSE 0)
    /\ w.page.linesContainer =>
         /\ w.app.repos = parsed[w.page.lines]
         /\ w.page.buttons = createButtons(w.app.repos, w.page.lines)
    /\ count(w.ops, "registerGlobalListeners") = (IF registered THEN 0 ELSE 1)
    /\ ~registered =>
         /\ w.ops[Len(w.ops)] = "registerGlobalListeners"
         /\ w.app.contentObserver = w.page.container
    /\ registered =>
         /\ w.app.contentObserver = app.contentObserver
         /\ w.app.fileTreeObserver = app.fileTreeObserver
    /\ activeAfter(w, c)

C27_IdleInvariant ==
  ~isReposFile(app.lastUrl) =>
    /\ page.buttons = <<>>
    /\ page.listeners = {}
    /\ ~app.listenersRegistered
    /\ app.contentObserver = 0
    /\ ~app.fileTreeObserver
    /\ ~held(app.repos)

\* The container, or its lines container, is not in the page.
viewGone == page.container = 0 \/ ~page.linesContainer

\* C28: while the listeners are registered, an update pass (of a window
\* resize, or of a debounce timer that fires) that finds the container or
\* its lines container gone leaves no overlay control in the page.
C28_DisappearanceClearsOverlay ==
  [][(app.listenersRegistered /\ viewGone) =>
       /\ WindowResize => page'.buttons = <<>>
       /\ \A t \in timeouts :
            (t.fn \in {"update", "handleResize"} /\ fires(t))
              => page'.buttons = <<>>]_vars

\* C29: the page holds at most one overlay control per record name, and
\* every control is that of a record now held: its name is a name of the
\* mapping, and its href and key are that record's url and key.
C29_NoDuplicateControls ==
  /\ \A i, j \in 1..Len(page.buttons) :
       page.buttons[i].name = page.buttons[j].name => i = j
  /\ \A i \in 1..Len(page.buttons) :
       /\ held(app.repos)
       /\ page.buttons[i].name \in DOMAIN app.repos
       /\ page.buttons[i].href = app.repos[page.buttons[i].name].url
       /\ page.buttons[i].key = app.repos[page.buttons[i].name].key

\* C29, witness: controls are shown after several passes: the records were
\* parsed from the whole manifest, the page has been scrolled and rendered
\* again without parsing, and a pass is pending.
C29_RenderedAgain ==
  /\ Len(page.buttons) = 1
  /\ held(app.repos) /\ Cardinality(DOMAIN app.repos) = 2
  /\ page.lines = ScrolledLines
  /\ debounceTimers(timeouts) # {}

\* C30: in every reachable state at most one debounce timer (of a scroll, a
\* content mutation or a file-tree resize) is pending, and a pending one is
\* the timer the App holds in this.timer.
C30_OneDebouncePending ==
  /\ Cardinality(debounceTimers(timeouts)) <= 1
  /\ \A t \in debounceTimers(timeouts) :
       /\ t.id = app.timer
       /\ t.by \in {"scroll", "content", "fileTree"}

\* C30, witness: the timer of a file-tree resize is the one pending, the
\* scroll listener and the content observer being registered too.
C30_FileTreeTimerPending ==
  /\ "scroll" \in page.listeners
  /\ app.contentObserver # 0
  /\ \E t \in timeouts : t.by = "fileTree" /\ debounceTimers(timeouts) = {t}

\* C31: the init loop of a cycle looks for the container at most RETRY_MAX
\* times, the first look included: a pending retry, which will look once
\* more, has fewer than RETRY_MAX looks behind it (attempts counts them).
C31_RetryBudget ==
  \A t \in timeouts : t.fn = "tryLoad" => t.attempts + 1 <= RETRY_MAX

\* C32: when the first of the parsed lines has the text 'repositories:',
\* whatever its id, it starts no block and gives no record, and the lines
\* after it are parsed as they are without it.
C32_HeaderSkippedWhereverFirst ==
  (Returned("parseRepositories") /\ call.src.header) =>
    /\ ~HasEntry(call.ret, "repositories")
    /\ call.ret = parseRepositories(Tail(call.arg))


\* Whether two mappings accept the same names and give each the same url.
sameLinks(a, b) ==
  /\ DOMAIN a = DOMAIN b
  /\ \A n \in DOMAIN a : a[n].url = b[n].url

\* The parser's result on the manifest of the call without its added line.
withoutAdded == parseRepositories(edgeLines(call.src, call.src.body))

\* C33: a 'version:' line without value, with or without a comment after
\* it, changes nothing wherever it stands among the field lines of a block:
\* the same names are accepted with the same urls as without the line.
C33_EmptyVersionIsAbsent ==
  (Returned("parseRepositories")
     /\ call.src.added \in {"version:", "version:   # none"}) =>
    sameLinks(call.ret, withoutAdded)


\* C34: every accepted record has a url that starts with 'https://': a url
\* value of another scheme, unless it is SSH that converts, gives no record.
C34_OnlyHttpsLinks ==
  Returned("parseRepositories") =>
    \A n \in DOMAIN call.ret : startsWith(call.ret[n].url, "https://")

\* C35: a line that is none of type:, url:, version:, with a value or
\* without one, changes nothing wherever it stands after the name line of a
\* block: the same names are accepted with the same urls as without it.
C35_UnrecognizedLineIgnored ==
  (Returned("parseRepositories") /\ call.src.added \in {"depth: 1", "extra:"})
    => sameLinks(call.ret, withoutAdded)


\* The parser's result on the manifest of the call without what follows its
\* block.
withoutFollower ==
  parseRepositories(edgeLines([call.src EXCEPT !.follower = << >>],
                              withAdded(call.src)))

\* C36: a later block of a name that an earlier block has contributes
\* nothing, also when the earlier block was discarded for want of type or
\* url: the result is that of the manifest without the later block.
C36_FirstWinsAlsoWhenDiscarded ==
  (/\ Returned("parseRepositories")
   /\ call.src.added = undefined
   /\ call.src.follower # << >>
   /\ call.src.follower[1] = "pkg/foo:") =>
    call.ret = withoutFollower


\* Whether line i of lines is a block-start line: a name followed by a colon
\* and at most a comment, other than 'repositories:' as the first line.
blockStart(lines, i) ==
  LET text == trim(lines[i].innerText)
  IN  REPOS_KEY(text) /\ ~(i = 1 /\ text = "repositories:")

\* The lines from the first block-start line on.
fromFirstBlock(lines) ==
  LET starts == { i \in 1..Len(lines) : blockStart(lines, i) }
  IN  IF starts = {} THEN << >>
      ELSE SubSeq(lines, CHOOSE i \in starts : \A j \in starts : i <= j,
                  Len(lines))

\* C37: every record of the result has a type and a url that are not empty,
\* stands under its own name, and has as key the id of the block-start line
\* that gives its name; a block-start line with no line of its own after it
\* gives no record, and neither do the lines before the first block-start
\* line (the result is that of the lines from it on).
C37_AcceptanceInvariant ==
  Returned("parseRepositories") =>
    /\ \A n \in DOMAIN call.ret :
         /\ call.ret[n].type \notin {undefined, ""}
         /\ call.ret[n].url \notin {undefined, ""}
         /\ call.ret[n].name = n
         /\ \E i \in 1..Len(call.arg) :
              /\ blockStart(call.arg, i)
              /\ call.arg[i].id = call.ret[n].key
              /\ startsWith(trim(call.arg[i].innerText), n \o ":")
    /\ \A i \in 1..Len(call.arg) :
         (/\ blockStart(call.arg, i)
          /\ (i = Len(call.arg) \/ blockStart(call.arg, i + 1)))
           => \A n \in DOMAIN call.ret : call.ret[n].key # call.arg[i].id
    /\ call.ret = parseRepositories(fromFirstBlock(call.arg))


\* Whether the handler that took the world to w ran the parser.
reparsed(w) == "parseRepositories" \in Ops(w)

\* C38: after every handler whose update pass runs the parser (a debounced
\* pass, a retry of the init loop, a window resize with nothing held, a url
\* change that finds the container), the records the App holds are exactly
\* the parser's result on the lines now in the page.
C38_ReparseReplaces ==
  [][/\ \A t \in timeouts :
          LET w == callback([World EXCEPT !.timeouts = @ \ {t}], t)
          IN  (Becomes(w) /\ reparsed(w)) => app'.repos = parsed[page'.lines]
     /\ LET w == update(did(World, "handleResize"), FALSE)
        IN  ("resize" \in page.listeners /\ Becomes(w) /\ reparsed(w))
              => app'.repos = parsed[page'.lines]
     /\ \A t \in Titles \ {app.lastTitle} :
          LET w == checkUrl([World EXCEPT !.page.title = t])
          IN  (app.titleObserver /\ Becomes(w) /\ reparsed(w))
                => app'.repos = parsed[page'.lines]]_vars

\* C38, witness: the App holds a record that the lines now in the page do
\* not give, and a debounced pass, which parses, is pending.
C38_StaleRecordBeforePass ==
  /\ held(app.repos)
  /\ page.container # 0 /\ page.linesContainer
  /\ \E n \in DOMAIN app.repos : n \notin DOMAIN parsed[page.lines]
  /\ \E t \in timeouts : t.fn = "update"


\* The call is on a manifest whose block pkg/foo is of type git, has the url
\* https://h/o/r.git and the version v, and no line added.
versioned(v) ==
  /\ Returned("parseRepositories")
  /\ call.src.added = undefined
  /\ call.src.body = << "type: git", "url: https://h/o/r.git", "version: " \o v >>

\* C39, as stated: the version d41d8cd98f00b204e9800998ecf8427e0000000 is
\* taken as a commit hash: the url of the record is
\* https://h/o/r/blob/d41d8cd98f00b204e9800998ecf8427e0000000.
C39_ExampleHashGivesBlob ==
  versioned(Hash39) =>
    /\ "pkg/foo" \in DOMAIN call.ret
    /\ call.ret["pkg/foo"].url = "https://h/o/r/blob/" \o Hash39

\* C39, amended: that version has 39 characters, is not a commit hash and
\* gives https://h/o/r/tree/d41d8cd98f00b204e9800998ecf8427e0000000; the
\* version of 40 characters d41d8cd98f00b204e9800998ecf8427e00000000 is a
\* commit hash and gives https://h/o/r/blob/ followed by it.
C39_FortyHexGivesBlob ==
  /\ versioned(Hash39) =>
       /\ "pkg/foo" \in DOMAIN call.ret
       /\ call.ret["pkg/foo"].url = "https://h/o/r/tree/" \o Hash39
  /\ versioned(Hash40) =>
       /\ "pkg/foo" \in DOMAIN call.ret
       /\ call.ret["pkg/foo"].url = "https://h/o/r/blob/" \o Hash40

\* C39, witness: the parser has returned the record of the block with the
\* version of 39 characters, its url a tree link.
C39_ExampleParsed ==
  /\ versioned(Hash39)
  /\ "pkg/foo" \in DOMAIN call.ret
  /\ call.ret["pkg/foo"].version = Hash39
  /\ Len(call.ret["pkg/foo"].version) = HashLength - 1
  /\ startsWith(call.ret["pkg/foo"].url, "https://h/o/r/tree/")

=============================================================================
